---- MODULE Spec2Model ----
(***************************************************************************)
(* PIXID invoice corrector: XMLParser -> InconsistencyDetector ->          *)
(* AmountCalculator -> InvoiceFixer -> InvoiceValidator.                   *)
(*                                                                         *)
(* Units.  Quantities and hours are integers in hundredths (35.0 h is      *)
(* 3500).  Unit prices are integers in 1/10000 of a currency unit          *)
(* (24.4216 is 244216).  Money is a rational number of cents [n, d] in     *)
(* lowest terms (203.43 is [n |-> 20343, d |-> 1]); Decimal and float      *)
(* arithmetic are taken as exact arithmetic on these rationals.  The VAT   *)
(* rate is in tenths of a percent (20 % is 200).  Text (descriptions,      *)
(* interval types) is a sequence of one-character strings; Python's None   *)
(* and the empty text are both the empty sequence.                         *)
(***************************************************************************)
EXTENDS Integers, Sequences, FiniteSets, TLC

VARIABLES pc, tree, data, issues, adjustments, fixed_tree, validation_result, corrected

vars == <<pc, tree, data, issues, adjustments, fixed_tree, validation_result, corrected>>

(***************************************************************************)
(* Text: str.lower() and the substring test `a in b`.                      *)
(***************************************************************************)
UpperChars == <<"A", "B", "C", "D", "E", "F", "G", "H", "I", "J", "K", "L", "M", "N", "O", "P", "Q", "R", "S", "T", "U", "V", "W", "X", "Y", "Z", "É", "È">>

LowerChars == <<"a", "b", "c", "d", "e", "f", "g", "h", "i", "j", "k", "l", "m", "n", "o", "p", "q", "r", "s", "t", "u", "v", "w", "x", "y", "z", "é", "è">>

UpperSet == { UpperChars[i] : i \in 1..Len(UpperChars) }

LowerOf == [c \in UpperSet |-> LowerChars[CHOOSE i \in 1..Len(UpperChars) : UpperChars[i] = c]]

lower_char(c) == IF c \in UpperSet THEN LowerOf[c] ELSE c

lower(s) == [i \in 1..Len(s) |-> lower_char(s[i])]

Contains(sub, s) ==
    \E i \in 0..(Len(s) - Len(sub)) : SubSeq(s, i + 1, i + Len(sub)) = sub

NoneText == <<>>

m_heure == <<"h", "e", "u", "r", "e">>

m_supplementaire == <<"s", "u", "p", "p", "l", "é", "m", "e", "n", "t", "a", "i", "r", "e">>

m_hs == <<"h", "s">>

m_rtt == <<"r", "t", "t">>

m_13 == <<"1", "3">>

m_mois == <<"m", "o", "i", "s">>

m_panier == <<"p", "a", "n", "i", "e", "r">>

m_transport == <<"t", "r", "a", "n", "s", "p", "o", "r", "t">>

(***************************************************************************)
(* Numbers: rationals in lowest terms, Python's round() (ties to even),    *)
(* Decimal.quantize(ROUND_HALF_UP) (ties away from zero).                  *)
(***************************************************************************)
Abs(x) == IF x < 0 THEN -x ELSE x

RECURSIVE GCD(_, _)
GCD(a, b) == IF b = 0 THEN a ELSE GCD(b, a % b)

Rat(n, d) ==
    LET g == GCD(Abs(n), Abs(d))
        s == IF d < 0 THEN -1 ELSE 1
    IN  [n |-> (s * n) \div g, d |-> (s * d) \div g]

Cents(c) == [n |-> c, d |-> 1]

RAdd(a, b) == Rat(a.n * b.d + b.n * a.d, a.d * b.d)

RSub(a, b) == Rat(a.n * b.d - b.n * a.d, a.d * b.d)

RAbs(a) == [n |-> Abs(a.n), d |-> a.d]

RLess(a, b) == a.n * b.d < b.n * a.d

FloorDiv(n, d) == n \div d

\* round(n / d) as Python's built-in round(): nearest integer, ties to even (d > 0)
RoundHalfEven(n, d) ==
    LET q == FloorDiv(n, d)
        r == n - q * d
    IN  IF 2 * r < d THEN q
        ELSE IF 2 * r > d THEN q + 1
        ELSE IF q % 2 = 0 THEN q ELSE q + 1

\* Decimal(n / d).quantize(ROUND_HALF_UP): nearest integer, ties away from zero (d > 0)
RoundHalfUp(n, d) ==
    LET a == Abs(n)
        q == a \div d
        r == a - q * d
        m == IF 2 * r >= d THEN q + 1 ELSE q
    IN  IF n < 0 THEN -m ELSE m

(***************************************************************************)
(* Python floats (binary64).  A float is [sign, e, m]: m is the sequence   *)
(* of the FloatBits significand bits, most significant first, m[1] = 1,    *)
(* and the value is sign * SUM m[i] * 2^(e + 1 - i); zero is FloatZero.     *)
(* Conversion and addition round to nearest, ties to even.                 *)
(***************************************************************************)
FloatBits == 53

FloatZero == [sign |-> 0, e |-> 0, m |-> <<>>]

Zeros(k) == [i \in 1..k |-> 0]

\* scale N / D into [1, 2): the exponent e and the scaled pair, N / D * 2^e unchanged
RECURSIVE normalise(_, _, _)
normalise(N, D, e) ==
    IF D <= N \div 2 THEN normalise(N, 2 * D, e + 1)
    ELSE IF N < D THEN normalise(2 * N, D, e - 1)
    ELSE [e |-> e, N |-> N, D |-> D]

\* the first k bits of r / D after the binary point (0 <= r < D)
RECURSIVE quotient_bits(_, _, _)
quotient_bits(r, D, k) ==
    IF k = 0 THEN <<>>
    ELSE LET b == IF 2 * r >= D THEN 1 ELSE 0
         IN  <<b>> \o quotient_bits(2 * r - b * D, D, k - 1)

\* what is left of r / D after those k bits
RECURSIVE remainder_after(_, _, _)
remainder_after(r, D, k) ==
    IF k = 0 THEN r
    ELSE remainder_after(IF 2 * r >= D THEN 2 * r - D ELSE 2 * r, D, k - 1)

\* bits + 1, with the carry out of the most significant bit
RECURSIVE add_one(_)
add_one(bits) ==
    IF bits = <<>> THEN [bits |-> <<>>, carry |-> 1]
    ELSE LET front == SubSeq(bits, 1, Len(bits) - 1)
         IN  IF bits[Len(bits)] = 0
             THEN [bits |-> Append(front, 1), carry |-> 0]
             ELSE LET r == add_one(front)
                  IN  [bits |-> Append(r.bits, 0), carry |-> r.carry]

\* x + y for bit sequences of equal length, from the least significant bit
RECURSIVE add_bits(_, _, _, _, _)
add_bits(x, y, i, carry, acc) ==
    IF i = 0 THEN [bits |-> acc, carry |-> carry]
    ELSE LET t == x[i] + y[i] + carry
         IN  add_bits(x, y, i - 1, t \div 2, <<t % 2>> \o acc)

\* round the exact value sign * 0.bits * 2^(e + 1) (bits[1] = 1, more below when
\* sticky) to FloatBits bits, nearest, ties to even
round_to_float(sign, e, bits, sticky) ==
    LET padded == bits \o Zeros(FloatBits + 1)
        m == SubSeq(padded, 1, FloatBits)
        half == padded[FloatBits + 1]
        below == sticky \/ \E i \in (FloatBits + 2)..Len(bits) : bits[i] = 1
        up == half = 1 /\ (below \/ m[FloatBits] = 1)
        r == add_one(m)
    IN  IF ~up THEN [sign |-> sign, e |-> e, m |-> m]
        ELSE IF r.carry = 0 THEN [sign |-> sign, e |-> e, m |-> r.bits]
        ELSE [sign |-> sign, e |-> e + 1, m |-> <<1>> \o SubSeq(r.bits, 1, FloatBits - 1)]

\* float(Decimal) of an amount of q cents: the float nearest to q / 100
to_float(q) ==
    IF q.n = 0 THEN FloatZero
    ELSE LET s == normalise(Abs(q.n), 100 * q.d, 0)
             r == s.N - s.D
         IN  round_to_float(IF q.n < 0 THEN -1 ELSE 1, s.e,
                            <<1>> \o quotient_bits(r, s.D, FloatBits),
                            remainder_after(r, s.D, FloatBits) # 0)

\* a + b for floats of the same sign (or zero)
float_add(a, b) ==
    IF a = FloatZero THEN b
    ELSE IF b = FloatZero THEN a
    ELSE LET hi == IF a.e >= b.e THEN a ELSE b
             lo == IF a.e >= b.e THEN b ELSE a
             shift == hi.e - lo.e
         IN  IF shift > FloatBits + 1 THEN hi
             ELSE LET r == add_bits(hi.m \o Zeros(shift), Zeros(shift) \o lo.m,
                                    FloatBits + shift, 0, <<>>)
                  IN  IF r.carry = 1
                      THEN round_to_float(hi.sign, hi.e + 1, <<1>> \o r.bits, FALSE)
                      ELSE round_to_float(hi.sign, hi.e, r.bits, FALSE)

(***************************************************************************)
(* Dates.  A date text is [kind, y, m, d]: kind "date" is an ISO date that *)
(* dateutil parses, "text" is text it rejects, "none" is Python's None.    *)
(***************************************************************************)
DateText(y, m, d) == [kind |-> "date", y |-> y, m |-> m, d |-> d]

BadDateText == [kind |-> "text", y |-> 0, m |-> 0, d |-> 0]

NoneDate == [kind |-> "none", y |-> 0, m |-> 0, d |-> 0]

\* date_parser.parse(t) raises for None (TypeError) and for unparseable text
ParseRaises(t) == t.kind # "date"

\* date_parser.parse(t).date() as a day number (days since 1970-01-01)
ParseDate(t) ==
    LET y == IF t.m <= 2 THEN t.y - 1 ELSE t.y
        era == y \div 400
        yoe == y - era * 400
        mp == (t.m + 9) % 12
        doy == (153 * mp + 2) \div 5 + t.d - 1
        doe == yoe * 365 + yoe \div 4 - yoe \div 100 + doy
    IN  era * 146097 + doe - 719468

\* date.weekday(): Monday is 0
Weekday(day) == (day + 3) % 7

\* date.month of a day number
MonthOf(day) ==
    LET z == day + 719468
        era == z \div 146097
        doe == z - era * 146097
        yoe == (doe - doe \div 1460 + doe \div 36524 - doe \div 146096) \div 365
        doy == doe - (365 * yoe + yoe \div 4 - yoe \div 100)
        mp == (5 * doy + 2) \div 153
    IN  IF mp < 10 THEN mp + 3 ELSE mp - 9

(***************************************************************************)
(* AmountCalculator (core/calculator.py)                                   *)
(***************************************************************************)
\* a ratio that is never allowed above 1: RAF hours beyond the invoiced hours are lost
calculate_ratio_capped(d) ==
    IF d.invoice_hours > 0 /\ d.raf_hours < d.invoice_hours
    THEN Rat(d.raf_hours, d.invoice_hours)
    ELSE Rat(1, 1)

\* the ratio RAF hours / invoiced hours, as a rational
calculate_ratio(d) ==
    IF d.invoice_hours > 0 THEN Rat(d.raf_hours, d.invoice_hours) ELSE Rat(1, 1)

\* the characters str() of a float or an int can produce
NumberChars == {"0", "1", "2", "3", "4", "5", "6", "7", "8", "9", ".", "-", "+", "e", "i", "n", "f", "a"}

\* 'heure' in str(quantity).lower(): a numeric string holds only NumberChars
quantity_str_contains(marker) == \A i \in 1..Len(marker) : marker[i] \in NumberChars

\* round(quantity, 2), in hundredths, of the quantity n / d hundredths
round_quantity_hours(n, d) == RoundHalfEven(n, d)

\* round(quantity), in hundredths, of the quantity n / d hundredths
round_quantity_other(n, d) == 100 * RoundHalfEven(n, 100 * d)

\* _round_quantity(quantity * ratio), in hundredths
round_quantity(quantity, ratio) ==
    IF quantity_str_contains(m_heure)
    THEN round_quantity_hours(quantity * ratio.n, ratio.d)
    ELSE round_quantity_other(quantity * ratio.n, ratio.d)

\* Decimal.quantize(Decimal('0.01'), ROUND_HALF_UP) of n / d cents, in cents
round_decimal(n, d) == RoundHalfUp(n, d)

\* _calculate_line_amount: quantity (hundredths) * unit_price (1/10000), in cents
calculate_line_amount(quantity, unit_price) ==
    Cents(round_decimal(quantity * unit_price, 10000))

\* _calculate_days_worked: 1 when either date fails to parse
calculate_days_worked(d) ==
    IF ParseRaises(d.period_start) \/ ParseRaises(d.period_end) THEN 1
    ELSE LET start == ParseDate(d.period_start)
             end == ParseDate(d.period_end)
             days == (end - start) + 1
         IN  IF start = end THEN 1
             ELSE IF days < 5 THEN days ELSE 5

ratio_adjustment(line, ratio) ==
    LET q == round_quantity(line.quantity, ratio)
    IN  [old_quantity |-> line.quantity, old_amount |-> line.total,
         unit_price |-> line.unit_price, action |-> "adjust",
         new_quantity |-> q, new_amount |-> calculate_line_amount(q, line.unit_price)]

remove_adjustment(line) ==
    [old_quantity |-> line.quantity, old_amount |-> line.total,
     unit_price |-> line.unit_price, action |-> "remove",
     new_quantity |-> 0, new_amount |-> Cents(0)]

days_adjustment(d, line) ==
    LET q == 100 * calculate_days_worked(d)
    IN  [old_quantity |-> line.quantity, old_amount |-> line.total,
         unit_price |-> line.unit_price, action |-> "adjust",
         new_quantity |-> q, new_amount |-> calculate_line_amount(q, line.unit_price)]

\* the branch of _calculate_line_adjustment a description is dispatched to
line_rule(description) ==
    LET desc == lower(description)
    IN  IF Contains(m_heure, desc) /\ ~Contains(m_supplementaire, desc) THEN "hours"
        ELSE IF Contains(m_supplementaire, desc) \/ Contains(m_hs, lower(desc)) THEN "overtime"
        ELSE IF Contains(m_rtt, desc) THEN "rtt"
        ELSE IF Contains(m_13, desc) /\ Contains(m_mois, desc) THEN "13_mois"
        ELSE IF Contains(m_panier, desc) \/ Contains(m_transport, desc) THEN "allowance"
        ELSE "default"

\* _calculate_line_adjustment, for a line whose description is not None
calculate_line_adjustment(d, line, ratio) ==
    LET rule == line_rule(line.description)
    IN  IF rule \in {"overtime", "rtt"}
        THEN IF d.period_start = d.period_end
             THEN remove_adjustment(line)
             ELSE ratio_adjustment(line, ratio)
        ELSE IF rule = "allowance" THEN days_adjustment(d, line)
        ELSE ratio_adjustment(line, ratio)

\* line.get('description', '').lower() raises AttributeError on None
line_adjustment_raises(line) == line.description = NoneText

(***************************************************************************)
(* A Python dict with text keys: a sequence of [key, value] entries in     *)
(* insertion order; assigning an existing key keeps its position.          *)
(***************************************************************************)
DictHas(dict, key) == \E i \in 1..Len(dict) : dict[i].key = key

DictSet(dict, key, value) ==
    IF DictHas(dict, key)
    THEN [i \in 1..Len(dict) |-> IF dict[i].key = key THEN [key |-> key, value |-> value] ELSE dict[i]]
    ELSE Append(dict, [key |-> key, value |-> value])

RECURSIVE SumAmounts(_)
SumAmounts(dict) ==
    IF dict = <<>> THEN Cents(0)
    ELSE RAdd(SumAmounts(Tail(dict)), Head(dict).value.new_amount)

\* self.vat_rate applied to an amount of cents, rounded half-up to the cent
tax_of(charges, vat_rate) ==
    Cents(round_decimal(charges.n * vat_rate, charges.d * 1000))

\* the loop of calculate_adjustments over data['lines'] (lines 40-44)
RECURSIVE adjust_lines(_, _, _, _)
adjust_lines(d, lines, ratio, acc) ==
    IF lines = <<>> THEN acc
    ELSE LET adj == calculate_line_adjustment(d, Head(lines), ratio)
         IN  adjust_lines(d, Tail(lines), ratio,
                 [lines |-> DictSet(acc.lines, Head(lines).description, adj),
                  new_total_charges |-> RAdd(acc.new_total_charges, adj.new_amount)])

\* raf_total of _adjust_cent_difference (lines 198-206), in cents
RECURSIVE raf_total(_, _)
raf_total(d, details) ==
    IF details = <<>> THEN Cents(0)
    ELSE LET rest == raf_total(d, Tail(details))
             e == Head(details)
         IN  IF Contains(m_heure, lower(e.key)) /\ d.invoice_hours > 0
             THEN RAdd(rest, Rat(e.value * d.total_charges, d.invoice_hours))
             ELSE rest

(***************************************************************************)
(* Decimal arithmetic of the decimal module's default context: a quotient  *)
(* or a product is rounded half-even to 28 significant digits.  Such a     *)
(* coefficient is beyond the integers of the model checker, so the model   *)
(* keeps the exact rational and computes the sign of the rounding error    *)
(* from remainders, which are small.                                       *)
(***************************************************************************)
DecimalPrec == 28

Pow10(n) == <<1, 10, 100, 1000, 10000, 100000, 1000000, 10000000, 100000000, 1000000000>>[n + 1]

\* (10 * x) % m for 0 <= x < m, by additions so that no product leaves 32 bits
mul10_mod(x, m) ==
    CHOOSE r \in { (5 * ((y + y) % m)) % m : y \in { x } } : TRUE

\* (x * 10^n) % m; each step is a value before the next one is taken
RECURSIVE shift_mod(_, _, _)
shift_mod(x, n, m) ==
    IF n = 0 THEN x % m
    ELSE CHOOSE r \in { shift_mod(y, n - 1, m) : y \in { mul10_mod(x % m, m) } } : TRUE

\* floor(log10(a / b)) for a, b > 0: the k in -6..8 with 10^k <= a / b < 10^(k+1)
at_least_pow10(a, b, k) ==
    IF k >= 0 THEN a \div Pow10(k) >= b
    ELSE a >= (b + Pow10(-k) - 1) \div Pow10(-k)

magnitude(a, b) == CHOOSE k \in -6..8 : at_least_pow10(a, b, k) /\ ~at_least_pow10(a, b, k + 1)

\* a = b * 10^k
equals_pow10(a, b, k) ==
    IF k >= 0 THEN a % Pow10(k) = 0 /\ a \div Pow10(k) = b
    ELSE b % Pow10(-k) = 0 /\ b \div Pow10(-k) = a

\* the sign of the rounding error of  Decimal(v) * (Decimal(t) / Decimal(h)),
\* from R, the remainder of t * 10^e by 2 * h * 10^n: e is the scale at which
\* the quotient has DecimalPrec digits, n the number of digits of v * t / h
\* beyond those of t / h (one less when the quotient was rounded down from a
\* power of ten times h)
rounding_sign(v, t, h, k, n, R) ==
    LET r == R % h
        \* the floor of the quotient, modulo 2 * 10^n
        floor_low == (R - r) \div h
        up == 2 * r > h \/ (2 * r = h /\ floor_low % 2 = 1)
        c == IF up THEN 1 ELSE 0
        first == c * h - r
        \* the coefficient of the rounded quotient, modulo 2 * 10^n
        q_low == (floor_low + c) % (2 * Pow10(n))
        \* the digits the product has beyond DecimalPrec
        j == IF equals_pow10(v * t, h, n + k) /\ first < 0 THEN n - 1 ELSE n
        low == IF j <= 0 THEN 0 ELSE (v * q_low) % Pow10(j)
        kept_odd == j > 0 /\ ((v * q_low) % (2 * Pow10(j))) >= Pow10(j)
        c2 == IF j <= 0 THEN 0
              ELSE IF 2 * low > Pow10(j) \/ (2 * low = Pow10(j) /\ kept_odd) THEN 1 ELSE 0
        second == IF j <= 0 THEN 0 ELSE (c2 * Pow10(j) - low) * h
        total == v * first + second
    IN  IF total > 0 THEN 1 ELSE IF total < 0 THEN -1 ELSE 0

\* the rounding of the quotient t / h to DecimalPrec digits, then of its product
\* by v, for the magnitudes k of t / h and k + n of v * t / h
product_error_sign(v, t, h, k, n) ==
    CHOOSE s \in { rounding_sign(v, t, h, k, n, R) :
                       R \in { shift_mod(t, (DecimalPrec - 1) - k, 2 * h * Pow10(n)) } } : TRUE

\* the sign of  Decimal(v) * (Decimal(t) / Decimal(h))  minus  v * t / h, for
\* integers v, t, h > 0: the quotient is rounded, then the product is rounded
decimal_error_sign(v, t, h) ==
    CHOOSE s \in { product_error_sign(v, t, h, k, kn - k) :
                       k \in { magnitude(t, h) }, kn \in { magnitude(v * t, h) } } : TRUE

\* the sign of the Decimal raf_total of lines 198-206 minus its exact value: the
\* rounding of the hour entry's quotient and product (the records of the model
\* have at most one hours-type entry, so no two errors are added)
RECURSIVE raf_total_sign(_, _)
raf_total_sign(d, details) ==
    IF details = <<>> THEN 0
    ELSE LET rest == raf_total_sign(d, Tail(details))
             e == Head(details)
         IN  IF /\ Contains(m_heure, lower(e.key))
                /\ d.invoice_hours > 0
                /\ e.value > 0
                /\ d.total_charges > 0
             THEN rest + decimal_error_sign(e.value, d.total_charges, d.invoice_hours)
             ELSE rest

\* a search that stops at the first entry with a positive new_amount
RECURSIVE first_positive_line(_, _, _)
first_positive_line(dict, i, best) ==
    IF i > Len(dict) THEN best
    ELSE IF best = 0 /\ RLess(Cents(0), dict[i].value.new_amount)
         THEN first_positive_line(dict, i + 1, i)
         ELSE first_positive_line(dict, i + 1, best)

\* the index of the entry with the smallest positive new_amount, 0 when none
RECURSIVE smallest_line(_, _, _)
smallest_line(dict, i, best) ==
    IF i > Len(dict) THEN best
    ELSE LET a == dict[i].value.new_amount
         IN  IF RLess(Cents(0), a) /\ (best = 0 \/ RLess(a, dict[best].value.new_amount))
             THEN smallest_line(dict, i + 1, i)
             ELSE smallest_line(dict, i + 1, best)

\* the difference the cent reconciliation looks at
cent_difference(d, adj) == RAbs(RSub(raf_total(d, d.raf_details), adj.new_total_charges))

\* raf_total > adjustments['new_total_charges'] (line 224), on the Decimals
raf_exceeds(d, adj) ==
    LET raf == raf_total(d, d.raf_details)
    IN  \/ RLess(adj.new_total_charges, raf)
        \/ raf = adj.new_total_charges /\ raf_total_sign(d, d.raf_details) > 0

\* the condition of line 211, on the Decimal difference: an exact difference of 0
\* is positive when raf_total was rounded, an exact difference of 1 is below 1
\* when the rounding went towards new_total_charges
difference_in_range(d, adj) ==
    LET diff == cent_difference(d, adj)
        sign == raf_total_sign(d, d.raf_details)
        towards == IF RLess(adj.new_total_charges, raf_total(d, d.raf_details))
                   THEN sign < 0 ELSE sign > 0
    IN  /\ RLess(Cents(0), diff) \/ sign # 0
        /\ RLess(diff, Cents(100)) \/ (diff = Cents(100) /\ towards)

\* the branches of lines 211 and 223 are taken
cent_adjustment_fires(d, adj) ==
    /\ difference_in_range(d, adj)
    /\ smallest_line(adj.lines, 1, 0) # 0

\* a reconciliation that moves the smallest line and the charges but leaves the
\* tax computed before it
adjust_cent_difference_stale_tax(d, adj) ==
    IF ~cent_adjustment_fires(d, adj) THEN adj
    ELSE LET diff == cent_difference(d, adj)
             k == smallest_line(adj.lines, 1, 0)
             old == adj.lines[k].value
             amount == IF raf_exceeds(d, adj)
                       THEN RAdd(old.new_amount, diff)
                       ELSE RSub(old.new_amount, diff)
             lines == [adj.lines EXCEPT ![k].value.new_amount = amount]
             charges == SumAmounts(lines)
         IN  [adj EXCEPT !.lines = lines,
                         !.new_total_charges = charges,
                         !.new_total_amount = RAdd(charges, adj.new_total_tax)]

\* a reconciliation that recomputes the charges and the tax but leaves the
\* total amount computed before it
adjust_cent_difference_stale_amount(d, adj) ==
    IF ~cent_adjustment_fires(d, adj) THEN adj
    ELSE LET diff == cent_difference(d, adj)
             k == smallest_line(adj.lines, 1, 0)
             old == adj.lines[k].value
             amount == IF raf_exceeds(d, adj)
                       THEN RAdd(old.new_amount, diff)
                       ELSE RSub(old.new_amount, diff)
             lines == [adj.lines EXCEPT ![k].value.new_amount = amount]
             charges == SumAmounts(lines)
         IN  [adj EXCEPT !.lines = lines,
                         !.new_total_charges = charges,
                         !.new_total_tax = tax_of(charges, d.vat_rate)]

\* _adjust_cent_difference.  float(difference) is added to a float amount: the
\* exact difference stands for it (a difference that is only the rounding of
\* raf_total is absorbed by the addition, and 1 - 1e-26 becomes the float 1.0)
adjust_cent_difference(d, adj) ==
    IF ~cent_adjustment_fires(d, adj) THEN adj
    ELSE LET diff == cent_difference(d, adj)
             k == smallest_line(adj.lines, 1, 0)
             old == adj.lines[k].value
             amount == IF raf_exceeds(d, adj)
                       THEN RAdd(old.new_amount, diff)
                       ELSE RSub(old.new_amount, diff)
             lines == [adj.lines EXCEPT ![k].value.new_amount = amount]
             charges == SumAmounts(lines)
             tax == tax_of(charges, d.vat_rate)
         IN  [adj EXCEPT !.lines = lines,
                         !.new_total_charges = charges,
                         !.new_total_tax = tax,
                         !.new_total_amount = RAdd(charges, tax)]

\* the plan before the cent reconciliation (lines 28-50)
plan_before_reconciliation(d) ==
    LET ratio == calculate_ratio(d)
        acc == adjust_lines(d, d.lines, ratio, [lines |-> <<>>, new_total_charges |-> Cents(0)])
        tax == tax_of(acc.new_total_charges, d.vat_rate)
    IN  [target_period_start |-> d.period_start,
         target_period_end |-> d.period_end,
         target_hours |-> d.raf_hours,
         ratio |-> ratio,
         lines |-> acc.lines,
         new_total_charges |-> acc.new_total_charges,
         new_total_tax |-> tax,
         new_total_amount |-> RAdd(acc.new_total_charges, tax)]

\* AmountCalculator.calculate_adjustments.  The three totals are kept as the
\* decimals of lines 46-54; the floats of lines 56-58 are to_float of them.
calculate_adjustments(d) == adjust_cent_difference(d, plan_before_reconciliation(d))

calculate_raises(d) == \E i \in 1..Len(d.lines) : line_adjustment_raises(d.lines[i])

(***************************************************************************)
(* The XML tree.  A tree holds the Header's totals, VAT rate and period    *)
(* annotations, the TimeCard elements with their TimeIntervals, and the    *)
(* Line elements.  Documents declare no namespace, so every lookup by      *)
(* plain path finds the element when it is there.                          *)
(***************************************************************************)
NoTree == [none |-> TRUE]

NoData == [none |-> TRUE]

NoIssues == [none |-> TRUE]

NoAdjustments == [none |-> TRUE]

NoValidation == [none |-> TRUE]

(***************************************************************************)
(* XMLParser (core/parser.py)                                              *)
(***************************************************************************)
\* the period of _parse_timecards: the last non-empty text wins
RECURSIVE parse_period(_, _, _)
parse_period(timecards, field, acc) ==
    IF timecards = <<>> THEN acc
    ELSE LET t == Head(timecards)[field]
         IN  parse_period(Tail(timecards), field, IF t.kind = "none" THEN acc ELSE t)

\* all TimeInterval elements of the timecards, in document order
RECURSIVE all_intervals(_)
all_intervals(timecards) ==
    IF timecards = <<>> THEN <<>>
    ELSE Head(timecards).intervals \o all_intervals(Tail(timecards))

DictGet(dict, key, default) ==
    IF DictHas(dict, key)
    THEN dict[CHOOSE i \in 1..Len(dict) : dict[i].key = key].value
    ELSE default

\* raf_details: the interval values accumulated by type (lines 185-187)
RECURSIVE parse_raf_details(_, _)
parse_raf_details(intervals, acc) ==
    IF intervals = <<>> THEN acc
    ELSE LET i == Head(intervals)
         IN  parse_raf_details(Tail(intervals),
                 DictSet(acc, i.type, DictGet(acc, i.type, 0) + i.value))

\* raf_hours: the values of the intervals whose type holds 'heure' (lines 190-191)
RECURSIVE parse_raf_hours(_)
parse_raf_hours(intervals) ==
    IF intervals = <<>> THEN 0
    ELSE (IF Contains(m_heure, lower(Head(intervals).type)) THEN Head(intervals).value ELSE 0)
         + parse_raf_hours(Tail(intervals))

\* _parse_single_line
parse_single_line(line) ==
    [description |-> line.description,
     quantity |-> line.quantity,
     unit |-> line.uom,
     unit_price |-> line.unit_price,
     total |-> line.total]

\* _parse_lines
parse_lines(t) == [i \in 1..Len(t.lines) |-> parse_single_line(t.lines[i])]

\* _calculate_invoice_hours
RECURSIVE calculate_invoice_hours(_)
calculate_invoice_hours(lines) ==
    IF lines = <<>> THEN 0
    ELSE (IF /\ Head(lines).description # NoneText
             /\ Contains(m_heure, lower(Head(lines).description))
             /\ Head(lines).unit \in {"HUR", "hur"}
          THEN Head(lines).quantity ELSE 0)
         + calculate_invoice_hours(Tail(lines))

\* a lookup that returns None instead of raising
find_invoice_raises_never(t) == FALSE

\* _find_invoice raises ValueError when the document holds no Invoice element
find_invoice_raises(t) == ~t.invoice

\* XMLParser.parse, once _find_invoice returned
parse(t) ==
    LET lines == parse_lines(t)
    IN  [invoice_id |-> t.header.id,
         period_start |-> parse_period(t.timecards, "period_start", NoneDate),
         period_end |-> parse_period(t.timecards, "period_end", NoneDate),
         raf_hours |-> parse_raf_hours(all_intervals(t.timecards)),
         raf_details |-> parse_raf_details(all_intervals(t.timecards), <<>>),
         invoice_hours |-> calculate_invoice_hours(lines),
         lines |-> lines,
         total_charges |-> t.header.total_charges,
         total_tax |-> t.header.total_tax,
         total_amount |-> t.header.total_amount,
         vat_rate |-> t.header.vat_rate,
         deb_per |-> t.header.deb_per,
         fin_per |-> t.header.fin_per]

(***************************************************************************)
(* InconsistencyDetector (core/detector.py)                                *)
(***************************************************************************)
\* _check_hours_mismatch: more than 0.01 h apart
check_hours_mismatch(d) == Abs(d.raf_hours - d.invoice_hours) > 1

\* _find_week_start: the Monday of the week of a day
find_week_start(day) == day - Weekday(day)

\* _check_week_overlap: the week of period_start spans two months
check_week_overlap(d) ==
    IF d.period_start.kind = "none" \/ d.period_end.kind = "none" THEN FALSE
    ELSE IF ParseRaises(d.period_start) \/ ParseRaises(d.period_end) THEN FALSE
    ELSE LET week_start == find_week_start(ParseDate(d.period_start))
             week_end == week_start + 6
         IN  MonthOf(week_start) # MonthOf(week_end)

\* _check_amount_mismatch: the RAF estimate against the declared total
check_amount_mismatch(d) ==
    RLess(Cents(1), RAbs(RSub(raf_total(d, d.raf_details), Cents(d.total_charges))))

\* _check_period_consistency: DEB_PER / FIN_PER against the timecard period
check_period_consistency(d) ==
    /\ d.deb_per.kind # "none"
    /\ d.fin_per.kind # "none"
    /\ (d.deb_per # d.period_start \/ d.fin_per # d.period_end)

\* InconsistencyDetector.detect: 'type' and 'message' as the four checks leave them
detect(d) ==
    LET hours == check_hours_mismatch(d)
        week == check_week_overlap(d)
        amount == check_amount_mismatch(d)
        period == check_period_consistency(d)
        type1 == IF hours THEN "hours_mismatch" ELSE "None"
        type2 == IF week THEN "week_overlap" ELSE type1
        type3 == IF amount
                 THEN (IF type2 # "None" THEN "multiple" ELSE "amount_mismatch")
                 ELSE type2
        message == IF amount THEN "amount" ELSE IF week THEN "week"
                   ELSE IF hours THEN "hours" ELSE "None"
    IN  [has_inconsistency |-> hours \/ week \/ amount \/ period,
         type |-> type3,
         message |-> message,
         details |-> (IF hours THEN {"raf_hours", "invoice_hours"} ELSE {})
                     \cup (IF week THEN {"is_overlapping"} ELSE {})
                     \cup (IF amount THEN {"has_mismatch"} ELSE {})
                     \cup (IF period THEN {"period_issue"} ELSE {})]

(***************************************************************************)
(* InvoiceFixer (core/fixer.py)                                            *)
(***************************************************************************)
\* f"{amount:.2f}": the nearest whole number of cents
format_2f(amount) == RoundHalfEven(amount.n, amount.d)

\* date_parser.parse of the target period raises (lines 62-63)
fix_raises(adj) ==
    ParseRaises(adj.target_period_start) \/ ParseRaises(adj.target_period_end)

\* an interval is removed when both timestamps parse and one lies outside the target
interval_removed(i, adj) ==
    /\ i.start.kind # "none"
    /\ i.end.kind # "none"
    /\ ~ParseRaises(i.start)
    /\ ~ParseRaises(i.end)
    /\ \/ ParseDate(i.start) < ParseDate(adj.target_period_start)
       \/ ParseDate(i.end) > ParseDate(adj.target_period_end)

RECURSIVE fix_intervals(_, _)
fix_intervals(intervals, adj) ==
    IF intervals = <<>> THEN <<>>
    ELSE IF interval_removed(Head(intervals), adj)
         THEN fix_intervals(Tail(intervals), adj)
         ELSE <<Head(intervals)>> \o fix_intervals(Tail(intervals), adj)

\* _fix_timecards, for one TimeCard
fix_timecard(tc, adj) ==
    [period_start |-> IF tc.period_start.kind # "none"
                      THEN adj.target_period_start ELSE tc.period_start,
     period_end |-> IF tc.period_end.kind # "none"
                    THEN adj.target_period_end ELSE tc.period_end,
     intervals |-> fix_intervals(tc.intervals, adj)]

\* _fix_timecards
fix_timecards(timecards, adj) ==
    [i \in 1..Len(timecards) |-> fix_timecard(timecards[i], adj)]

\* the adjustment a Line element is matched with (lines 124-128): the index of
\* the first key that holds the description or is held by it, 0 when none
RECURSIVE match_adjustment(_, _, _)
match_adjustment(dict, description, i) ==
    IF i > Len(dict) THEN 0
    ELSE IF Contains(dict[i].key, description) \/ Contains(description, dict[i].key)
         THEN i
         ELSE match_adjustment(dict, description, i + 1)

m_au == <<" ", "a", "u", " ">>

m_du == <<" ", "d", "u", " ">>

DigitChars == <<"0", "1", "2", "3", "4", "5", "6", "7", "8", "9">>

Digit(n) == DigitChars[n + 1]

TwoDigits(n) == <<Digit(n \div 10), Digit(n % 10)>>

\* the text of a period date, as written into a description
DateChars(t) ==
    IF t.kind # "date" THEN <<"?">>
    ELSE TwoDigits(t.y \div 100) \o TwoDigits(t.y % 100) \o <<"-">> \o TwoDigits(t.m)
         \o <<"-">> \o TwoDigits(t.d)

\* old_text.split(' au ')[0]
split_au_prefix(text) ==
    LET i == CHOOSE k \in 0..(Len(text) - Len(m_au)) :
                 /\ SubSeq(text, k + 1, k + Len(m_au)) = m_au
                 /\ \A j \in 0..(k - 1) : SubSeq(text, j + 1, j + Len(m_au)) # m_au
    IN  SubSeq(text, 1, i)

\* the description rewrite of _update_line_values (lines 160-170)
update_description(text, adj) ==
    IF text = NoneText \/ ~Contains(m_au, text) THEN text
    ELSE IF adj.target_period_start = adj.target_period_end
         THEN split_au_prefix(text) \o m_du \o DateChars(adj.target_period_start)
         ELSE split_au_prefix(text) \o m_du \o DateChars(adj.target_period_start)
              \o m_au \o DateChars(adj.target_period_end)

\* _update_line_values
update_line_values(line, a, adj) ==
    [line EXCEPT !.quantity = a.new_quantity,
                 !.total = format_2f(a.new_amount),
                 !.description = update_description(line.description, adj)]

\* what _fix_invoice_lines does with one Line element (lines 120-137): without a
\* description text or a matching key it is left alone, else removed or updated
line_fate(line, adj) ==
    LET k == IF line.description = NoneText THEN 0
             ELSE match_adjustment(adj.lines, line.description, 1)
    IN  IF k = 0 THEN "untouched"
        ELSE IF adj.lines[k].value.action = "remove" THEN "removed"
        ELSE "updated"

\* _fix_invoice_lines
RECURSIVE fix_invoice_lines(_, _)
fix_invoice_lines(lines, adj) ==
    IF lines = <<>> THEN <<>>
    ELSE LET line == Head(lines)
             rest == fix_invoice_lines(Tail(lines), adj)
             k == match_adjustment(adj.lines, line.description, 1)
         IN  IF line_fate(line, adj) = "untouched" THEN <<line>> \o rest
             ELSE IF line_fate(line, adj) = "removed" THEN rest
             ELSE <<update_line_values(line, adj.lines[k].value, adj)>> \o rest

\* the header holds no element with owner="NbHeuresFacturees"
NoAnnotation == -1

\* the hours annotation in _fix_header_totals (lines 200-211): the element is
\* looked up by its owner attribute among all descendants of the header, and the
\* text is written only in the branch taken when that lookup found nothing, where
\* no Description carries the owner either
fix_nb_heures(nb_heures, adj) ==
    IF nb_heures # NoAnnotation THEN nb_heures ELSE NoAnnotation

\* a header whose FIN_PER annotation is left as it was
fix_header_start_only(header, adj) ==
    [header EXCEPT !.total_charges = format_2f(adj.new_total_charges),
                   !.total_tax = format_2f(adj.new_total_tax),
                   !.total_amount = format_2f(adj.new_total_amount),
                   !.nb_heures = fix_nb_heures(header.nb_heures, adj),
                   !.deb_per = adj.target_period_start]

\* _fix_header_totals and _fix_period_dates
fix_header(header, adj) ==
    [header EXCEPT !.total_charges = format_2f(adj.new_total_charges),
                   !.total_tax = format_2f(adj.new_total_tax),
                   !.total_amount = format_2f(adj.new_total_amount),
                   !.nb_heures = fix_nb_heures(header.nb_heures, adj),
                   !.deb_per = adj.target_period_start,
                   !.fin_per = adj.target_period_end]

\* a constructor that keeps the caller's tree instead of copying it
fixer_init_shared(t, adj) == [tree |-> t, own_tree |-> FALSE, adjustments |-> adj]

\* InvoiceFixer.__init__: self.tree is a deepcopy of the tree, an object of the
\* fixer's own (own_tree); self.adjustments is the caller's plan
fixer_init(t, adj) == [tree |-> t, own_tree |-> TRUE, adjustments |-> adj]

\* InvoiceFixer.fix: the four steps, on self.tree
fix(t, adj) ==
    [invoice |-> t.invoice,
     header |-> fix_header(t.header, adj),
     timecards |-> fix_timecards(t.timecards, adj),
     lines |-> fix_invoice_lines(t.lines, adj)]

(***************************************************************************)
(* InvoiceValidator (core/validator.py)                                    *)
(***************************************************************************)
\* the sum of the Charges/Charge/Total values of Line elements
RECURSIVE SumTotals(_)
SumTotals(lines) ==
    IF lines = <<>> THEN 0 ELSE Head(lines).total + SumTotals(Tail(lines))

\* self.tolerance, in cents
tolerance == 1

\* _validate_raf_equals_lines: the RAF total, estimated with the average hourly
\* rate of the document, against the sum of the line totals
validate_raf_equals_lines(t) ==
    LET hours == parse_raf_hours(all_intervals(t.timecards))
        invoice_hours == calculate_invoice_hours(parse_lines(t))
        raf == IF invoice_hours > 0
               THEN Rat(hours * t.header.total_charges, invoice_hours)
               ELSE Cents(0)
    IN  ~RLess(Cents(tolerance), RAbs(RSub(raf, Cents(SumTotals(t.lines)))))

\* _validate_lines_equal_total
validate_lines_equal_total(t) ==
    Abs(SumTotals(t.lines) - t.header.total_charges) <= tolerance

\* _validate_tax_amounts
validate_tax_amounts(t) ==
    /\ Abs(t.header.total_tax
           - round_decimal(t.header.total_charges * t.header.vat_rate, 1000)) <= tolerance
    /\ Abs(t.header.total_amount - (t.header.total_charges + t.header.total_tax)) <= tolerance

\* _validate_mandatory_fields
validate_mandatory_fields(t) == t.header.id # NoneText /\ Len(t.lines) >= 1

\* _validate_period_consistency
validate_period_consistency(t) ==
    \A i \in 1..Len(t.timecards) :
        /\ t.timecards[i].period_start = t.header.deb_per
        /\ t.timecards[i].period_end = t.header.fin_per

\* a validator whose period check is blocking as well
validate_period_blocking(t) ==
    LET raf_equals_lines == validate_raf_equals_lines(t)
        lines_equal_total == validate_lines_equal_total(t)
        tax_correct == validate_tax_amounts(t)
        mandatory_fields == validate_mandatory_fields(t)
        period_consistent == validate_period_consistency(t)
    IN  [is_valid |-> raf_equals_lines /\ lines_equal_total /\ tax_correct
                      /\ mandatory_fields /\ period_consistent,
         raf_equals_lines |-> raf_equals_lines,
         lines_equal_total |-> lines_equal_total,
         tax_correct |-> tax_correct,
         mandatory_fields |-> mandatory_fields,
         period_consistent |-> period_consistent,
         errors |-> (IF raf_equals_lines THEN <<>> ELSE <<"raf_equals_lines">>)
                    \o (IF lines_equal_total THEN <<>> ELSE <<"lines_equal_total">>)
                    \o (IF tax_correct THEN <<>> ELSE <<"tax_correct">>)
                    \o (IF mandatory_fields THEN <<>> ELSE <<"mandatory_fields">>)
                    \o (IF period_consistent THEN <<>> ELSE <<"period_consistent">>),
         warnings |-> <<>>]

\* InvoiceValidator.validate
validate(t) ==
    LET raf_equals_lines == validate_raf_equals_lines(t)
        lines_equal_total == validate_lines_equal_total(t)
        tax_correct == validate_tax_amounts(t)
        mandatory_fields == validate_mandatory_fields(t)
        period_consistent == validate_period_consistency(t)
    IN  [is_valid |-> raf_equals_lines /\ lines_equal_total /\ tax_correct /\ mandatory_fields,
         raf_equals_lines |-> raf_equals_lines,
         lines_equal_total |-> lines_equal_total,
         tax_correct |-> tax_correct,
         mandatory_fields |-> mandatory_fields,
         period_consistent |-> period_consistent,
         errors |-> (IF raf_equals_lines THEN <<>> ELSE <<"raf_equals_lines">>)
                    \o (IF lines_equal_total THEN <<>> ELSE <<"lines_equal_total">>)
                    \o (IF tax_correct THEN <<>> ELSE <<"tax_correct">>)
                    \o (IF mandatory_fields THEN <<>> ELSE <<"mandatory_fields">>),
         warnings |-> IF period_consistent THEN <<>> ELSE <<"period_consistent">>]

(***************************************************************************)
(* Input documents and the unit-test fixture.                              *)
(***************************************************************************)
MaxLines == 2

HeuresTravaillees == <<"H", "e", "u", "r", "e", "s", " ", "t", "r", "a", "v", "a", "i", "l", "l", "é", "e", "s">>

HeuresSupplementaires == <<"H", "e", "u", "r", "e", "s", " ", "S", "u", "p", "p", "l", "é", "m", "e", "n", "t", "a", "i", "r", "e", "s", " ", "1", "2", "5", "%">>

Prime13Mois == <<"P", "r", "i", "m", "e", " ", "d", "e", " ", "1", "3", " ", "è", "m", "e", " ", "M", "o", "i", "s">>

PrimePanier == <<"P", "r", "i", "m", "e", " ", "d", "e", " ", "P", "a", "n", "i", "e", "r", " ", "d", "e", " ", "C", "h", "a", "n", "t", "i", "e", "r">>

IndemniteTransport == <<"I", "n", "d", "e", "m", "n", "i", "t", "é", " ", "d", "e", " ", "T", "r", "a", "n", "s", "p", "o", "r", "t">>

Heures == <<"H", "e", "u", "r", "e", "s">>

HeuresHS == <<"H", "e", "u", "r", "e", "s", " ", "H", "S", " ", "2", "5", "%">>

JourRTT == <<"J", "o", "u", "r", " ", "R", "T", "T">>

HS25 == <<"H", "S", " ", "2", "5", "%">>

FraisDivers == <<"F", "r", "a", "i", "s", " ", "d", "i", "v", "e", "r", "s">>

InvoiceId == <<"F", "1">>

\* the invoice_id parse() starts from
Unknown == <<"U", "N", "K", "N", "O", "W", "N">>

\* a Line element of an input document: its total is quantity * unit price
DocLine(description, uom, quantity, unit_price) ==
    [description |-> description, quantity |-> quantity, uom |-> uom,
     unit_price |-> unit_price,
     total |-> RoundHalfUp(quantity * unit_price, 10000)]

LineChoices ==
    { DocLine(HeuresTravaillees, "HUR", 3500, 244216),
      DocLine(HeuresTravaillees, "HUR", 1000, 244216),
      DocLine(HeuresSupplementaires, "HUR", 100, 305270),
      DocLine(Heures, "HUR", 1000, 200000),
      DocLine(HeuresHS, "HUR", 200, 305270),
      DocLine(JourRTT, "PCE", 100, 500000),
      DocLine(HS25, "HUR", 200, 305270),
      DocLine(Prime13Mois, "PCE", 3500, 19720),
      DocLine(PrimePanier, "PCE", 500, 4750),
      DocLine(FraisDivers, "PCE", 300, 12500),
      DocLine(NoneText, "PCE", 100, 10000) }

LineSeqs == UNION { [1..n -> LineChoices] : n \in 0..MaxLines }

Interval(type, value, day) == [type |-> type, value |-> value, start |-> day, end |-> day]

Jun23 == DateText(2025, 6, 23)

Jun25 == DateText(2025, 6, 25)

Jun27 == DateText(2025, 6, 27)

Jun30 == DateText(2025, 6, 30)

Jul01 == DateText(2025, 7, 1)

\* the declared periods: one day in a week that spans two months, one day inside a
\* month, a five-day week, an end before the start, text that is no date
PeriodChoices ==
    { <<Jun30, Jun30>>, <<Jun25, Jun25>>, <<Jun23, Jun27>>, <<Jun25, Jun23>>,
      <<BadDateText, BadDateText>> }

\* a TimeInterval whose two timestamps differ
IntervalSpan(type, value, start, end) ==
    [type |-> type, value |-> value, start |-> start, end |-> end]

\* the intervals of a TimeCard: one day of work; a day of work and one on 1 July;
\* work and an allowance; work and an allowance that starts on 1 July and ends
\* on the day of the work
IntervalChoices(day) ==
    { <<Interval(HeuresTravaillees, 800, day)>>,
      <<Interval(HeuresTravaillees, 800, day), Interval(HeuresTravaillees, 800, Jul01)>>,
      <<Interval(HeuresTravaillees, 500, day), Interval(PrimePanier, 100, day)>>,
      <<Interval(HeuresTravaillees, 1000, day), IntervalSpan(PrimePanier, 100, Jul01, day)>> }

TimeCard(period, intervals) ==
    [period_start |-> period[1], period_end |-> period[2], intervals |-> intervals]

\* two TimeCards with different periods; the interval of the second one has no
\* StartDateTime and an EndDateTime on 1 July
TwoTimecards ==
    << TimeCard(<<Jun23, Jun27>>, <<Interval(HeuresTravaillees, 800, Jun23)>>),
       TimeCard(<<Jun25, Jun25>>,
                <<IntervalSpan(HeuresTravaillees, 200, NoneDate, Jul01)>>) >>

\* no TimeCard at all, one TimeCard, or the two TimeCards
TimecardChoices ==
    { <<>>, TwoTimecards } \cup
    UNION { { <<TimeCard(p, i)>> :
                  i \in IntervalChoices(IF p[1].kind = "date" THEN p[1] ELSE Jun30) } :
            p \in PeriodChoices }

VatChoices == { 55, 200, 1000 }

\* the header's TotalCharges: the sum of the line totals, or the fixture's total
TotalChoices(lines) == { SumTotals(lines), 114560 }

Document(lines, timecards, total, vat) ==
    [invoice |-> TRUE,
     header |-> [id |-> InvoiceId,
                 total_charges |-> total,
                 total_tax |-> RoundHalfUp(total * vat, 1000),
                 total_amount |-> total + RoundHalfUp(total * vat, 1000),
                 vat_rate |-> vat,
                 deb_per |-> Jun30,
                 fin_per |-> DateText(2025, 7, 6),
                 nb_heures |-> calculate_invoice_hours(parse_lines([lines |-> lines]))],
     timecards |-> timecards,
     lines |-> lines]

\* a document without an Invoice element: no header, no Line, the TimeCards alone
NoInvoiceDocument(timecards) ==
    [invoice |-> FALSE,
     header |-> [id |-> Unknown, total_charges |-> 0, total_tax |-> 0,
                 total_amount |-> 0, vat_rate |-> 200,
                 deb_per |-> NoneDate, fin_per |-> NoneDate,
                 nb_heures |-> NoAnnotation],
     timecards |-> timecards,
     lines |-> <<>>]

\* the record of tests/test_calculator.py setUp
Fixture ==
    [invoice_id |-> InvoiceId,
     period_start |-> Jun30,
     period_end |-> Jun30,
     raf_hours |-> 800,
     invoice_hours |-> 3800,
     total_charges |-> 114560,
     total_tax |-> 0,
     total_amount |-> 0,
     vat_rate |-> 200,
     deb_per |-> NoneDate,
     fin_per |-> NoneDate,
     raf_details |-> << [key |-> HeuresTravaillees, value |-> 800],
                        [key |-> PrimePanier, value |-> 100],
                        [key |-> IndemniteTransport, value |-> 100] >>,
     lines |-> << [description |-> HeuresTravaillees, quantity |-> 3500, unit |-> "HUR",
                   unit_price |-> 244216, total |-> 85476],
                  [description |-> HeuresSupplementaires, quantity |-> 100, unit |-> "HUR",
                   unit_price |-> 305270, total |-> 3053],
                  [description |-> Prime13Mois, quantity |-> 3500, unit |-> "PCE",
                   unit_price |-> 19720, total |-> 6902],
                  [description |-> PrimePanier, quantity |-> 500, unit |-> "PCE",
                   unit_price |-> 4750, total |-> 238],
                  [description |-> IndemniteTransport, quantity |-> 500, unit |-> "PCE",
                   unit_price |-> 182000, total |-> 9100] >>]

\* the record of test_cent_adjustment
FixtureCent ==
    [Fixture EXCEPT !.raf_details = << [key |-> HeuresTravaillees, value |-> 801] >>]

\* a record whose RAF estimate, 3 h * 100.00 / 3 h, is one euro above its only line
RecordOneEuro ==
    [invoice_id |-> InvoiceId,
     period_start |-> Jun23,
     period_end |-> Jun27,
     raf_hours |-> 300,
     invoice_hours |-> 300,
     total_charges |-> 10000,
     total_tax |-> 0,
     total_amount |-> 0,
     vat_rate |-> 200,
     deb_per |-> NoneDate,
     fin_per |-> NoneDate,
     raf_details |-> << [key |-> HeuresTravaillees, value |-> 300] >>,
     lines |-> << [description |-> HeuresTravaillees, quantity |-> 300, unit |-> "HUR",
                   unit_price |-> 330000, total |-> 9900] >>]

TestRecords == { Fixture, FixtureCent, RecordOneEuro }

(***************************************************************************)
(* The state machine: one uploaded document goes through app.main, or a    *)
(* test record goes through the calculator alone.                          *)
(***************************************************************************)
Init ==
    /\ \/ /\ pc = "upload"
          /\ \/ \E l \in LineSeqs, t \in TimecardChoices, v \in VatChoices :
                   \E c \in TotalChoices(l) : tree = Document(l, t, c, v)
             \/ \E t \in TimecardChoices : tree = NoInvoiceDocument(t)
          /\ data = NoData
       \/ /\ pc = "test"
          /\ tree = NoTree
          /\ data \in TestRecords
    /\ issues = NoIssues
    /\ adjustments = NoAdjustments
    /\ fixed_tree = NoTree
    /\ validation_result = NoValidation
    /\ corrected = FALSE

\* app.main lines 42-43: XMLParser(xml_content).parse(); a ValueError ends main
\* in the except clause of line 138
Parse ==
    /\ pc = "upload"
    /\ IF find_invoice_raises(tree)
       THEN /\ pc' = "parse_error"
            /\ UNCHANGED data
       ELSE /\ pc' = "parsed"
            /\ data' = parse(tree)
    /\ UNCHANGED <<tree, issues, adjustments, fixed_tree, validation_result, corrected>>

\* AmountCalculator(record).calculate_adjustments(), as the unit tests call it
TestCalculate ==
    /\ pc \in {"test", "parsed"}
    /\ IF calculate_raises(data)
       THEN /\ pc' = "test_error"
            /\ UNCHANGED adjustments
       ELSE /\ pc' = "test_done"
            /\ adjustments' = calculate_adjustments(data)
    /\ UNCHANGED <<tree, data, issues, fixed_tree, validation_result, corrected>>

\* app.main lines 46-47: InconsistencyDetector(invoice_data).detect()
Detect ==
    /\ pc = "parsed"
    /\ issues' = detect(data)
    /\ pc' = "detected"
    /\ UNCHANGED <<tree, data, adjustments, fixed_tree, validation_result, corrected>>

\* app.main lines 69-75: the plan is computed when an inconsistency was found
Calculate ==
    /\ pc = "detected"
    /\ issues.has_inconsistency
    /\ IF calculate_raises(data)
       THEN /\ pc' = "error"
            /\ UNCHANGED adjustments
       ELSE /\ pc' = "calculated"
            /\ adjustments' = calculate_adjustments(data)
    /\ UNCHANGED <<tree, data, issues, fixed_tree, validation_result, corrected>>

\* app.main lines 82-86: InvoiceFixer(parser.tree, adjustments).fix()
Fix ==
    /\ pc = "calculated"
    /\ LET fixer == fixer_init(tree, adjustments)
       IN  IF fix_raises(fixer.adjustments)
           THEN /\ pc' = "error"
                /\ UNCHANGED <<tree, fixed_tree>>
           ELSE /\ pc' = "fixed"
                /\ fixed_tree' = fix(fixer.tree, fixer.adjustments)
                /\ tree' = IF fixer.own_tree THEN tree ELSE fixed_tree'
    /\ UNCHANGED <<data, issues, adjustments, validation_result, corrected>>

\* app.main lines 89-90: InvoiceValidator(fixed_tree).validate()
Validate ==
    /\ pc = "fixed"
    /\ validation_result' = validate(fixed_tree)
    /\ pc' = "validated"
    /\ UNCHANGED <<tree, data, issues, adjustments, fixed_tree, corrected>>

\* InvoiceValidator(tree).validate() on a document as it was uploaded
ValidateUploaded ==
    /\ pc = "upload"
    /\ tree.invoice
    /\ validation_result' = validate(tree)
    /\ pc' = "test_validated"
    /\ UNCHANGED <<tree, data, issues, adjustments, fixed_tree, corrected>>

\* a flow that offers the corrected XML whatever the validation says
Download_ungated ==
    /\ pc = "validated"
    /\ pc' = "downloaded"
    /\ UNCHANGED <<tree, data, issues, adjustments, fixed_tree, validation_result, corrected>>

\* app.main lines 92-116: the corrected XML is offered when the validation passed
Download ==
    /\ pc = "validated"
    /\ validation_result.is_valid
    /\ pc' = "downloaded"
    /\ UNCHANGED <<tree, data, issues, adjustments, fixed_tree, validation_result, corrected>>

\* the downloaded document is uploaded again: app.main starts over on it
Reupload ==
    /\ pc = "downloaded"
    /\ ~corrected
    /\ pc' = "upload"
    /\ tree' = fixed_tree
    /\ corrected' = TRUE
    /\ data' = NoData
    /\ issues' = NoIssues
    /\ adjustments' = NoAdjustments
    /\ fixed_tree' = NoTree
    /\ validation_result' = NoValidation

Next ==
    \/ Parse
    \/ Detect
    \/ Calculate
    \/ Fix
    \/ Validate
    \/ Download
    \/ Reupload
    \/ TestCalculate
    \/ ValidateUploaded

Spec == Init /\ [][Next]_vars

(***************************************************************************)
(* Properties of the plan returned by calculate_adjustments.               *)
(***************************************************************************)
PlanReturned == adjustments # NoAdjustments

\* the cent reconciliation changed the returned plan
Reconciled == cent_adjustment_fires(data, plan_before_reconciliation(data))

\* the nearest integer to n / d, ties away from zero (d > 0)
HalfUp(n, d) == IF n >= 0 THEN (2 * n + d) \div (2 * d) ELSE -((2 * (-n) + d) \div (2 * d))

\* the VAT rate as a fraction in lowest terms
VatFraction == Rat(data.vat_rate, 1000)

\* C1: the sum of new_amount over the adjustments held in 'lines' equals
\* new_total_charges within 0.01, for every record, lines sharing a description included
C1_TotalConsistency ==
    PlanReturned =>
        ~RLess(Cents(1), RAbs(RSub(SumAmounts(adjustments.lines), adjustments.new_total_charges)))

\* C2: new_total_tax is new_total_charges * vat_rate / 100 rounded half-up to the
\* cent, whether or not the cent reconciliation fired
C2_TaxDerivation ==
    PlanReturned =>
        /\ adjustments.new_total_tax.d = 1
        /\ adjustments.new_total_tax.n =
               HalfUp(adjustments.new_total_charges.n * VatFraction.n,
                      adjustments.new_total_charges.d * VatFraction.d)

\* C2 witness: a plan the reconciliation changed, with a tax that is not zero
C2_Witness == PlanReturned /\ Reconciled /\ adjustments.new_total_tax.n > 0

\* C3 (amended): the decimal new_total_amount calculate_adjustments computes is
\* exactly new_total_charges + new_total_tax, whether or not the cent
\* reconciliation fired
C3_Additivity ==
    PlanReturned =>
        adjustments.new_total_amount.n * adjustments.new_total_charges.d
            = (adjustments.new_total_charges.n
               + adjustments.new_total_tax.n * adjustments.new_total_charges.d)
              * adjustments.new_total_amount.d

\* C3 witness: a plan the reconciliation changed, with charges that are no whole
\* number of cents and a tax that is not zero
C3_Witness ==
    /\ PlanReturned
    /\ Reconciled
    /\ adjustments.new_total_charges.d > 1
    /\ adjustments.new_total_tax.n > 0

\* C3 (as stated): on the returned plan, whose totals are floats, new_total_amount
\* is exactly new_total_charges + new_total_tax
C3_ReturnedAdditivity ==
    PlanReturned =>
        float_add(to_float(adjustments.new_total_charges), to_float(adjustments.new_total_tax))
            = to_float(adjustments.new_total_amount)

\* a description carries an overtime marker or the RTT marker
overtime_or_rtt(description) ==
    \/ Contains(m_supplementaire, lower(description))
    \/ Contains(m_hs, lower(description))
    \/ Contains(m_rtt, lower(description))

\* C4: when period_start = period_end, every line whose description carries an
\* overtime marker or the RTT marker gets action remove, new_quantity 0, new_amount 0
C4_SingleDayCollapse ==
    (PlanReturned /\ data.period_start = data.period_end) =>
        \A i \in 1..Len(adjustments.lines) :
            overtime_or_rtt(adjustments.lines[i].key) =>
                /\ adjustments.lines[i].value.action = "remove"
                /\ adjustments.lines[i].value.new_quantity = 0
                /\ adjustments.lines[i].value.new_amount = Cents(0)

\* a line is handled by a ratio policy: regular hours, 13th month, default, and
\* overtime / RTT outside the single-day collapse
ratio_governed(description) ==
    \/ line_rule(description) \in {"hours", "13_mois", "default"}
    \/ /\ line_rule(description) \in {"overtime", "rtt"}
       /\ data.period_start # data.period_end

\* C5: for a ratio-governed line, new_quantity is old_quantity * ratio rounded to
\* 2 decimals (no further than half a hundredth from the product)
C5_RatioQuantity ==
    PlanReturned =>
        \A i \in 1..Len(adjustments.lines) :
            ratio_governed(adjustments.lines[i].key) =>
                2 * Abs(adjustments.lines[i].value.new_quantity * adjustments.ratio.d
                        - adjustments.lines[i].value.old_quantity * adjustments.ratio.n)
                    <= adjustments.ratio.d

\* C6: ratio is raf_hours / invoice_hours when invoice_hours > 0 and 1.0 otherwise;
\* the target period and hours are the record's period and raf_hours
C6_RatioDefinition ==
    PlanReturned =>
        /\ data.invoice_hours > 0 =>
               adjustments.ratio.n * data.invoice_hours = data.raf_hours * adjustments.ratio.d
        /\ ~(data.invoice_hours > 0) => adjustments.ratio.n = adjustments.ratio.d
        /\ adjustments.target_period_start = data.period_start
        /\ adjustments.target_period_end = data.period_end
        /\ adjustments.target_hours = data.raf_hours

\* C6 witness: a plan for a record whose RAF hours and invoiced hours differ
C6_Witness ==
    /\ PlanReturned
    /\ data.invoice_hours > 0
    /\ data.raf_hours > 0
    /\ data.raf_hours # data.invoice_hours

\* the working-day count of the target period, as the allowance law states it
allowance_days ==
    IF ParseRaises(data.period_start) \/ ParseRaises(data.period_end) THEN 1
    ELSE IF ParseDate(data.period_start) = ParseDate(data.period_end) THEN 1
    ELSE IF ParseDate(data.period_end) - ParseDate(data.period_start) + 1 < 5
         THEN ParseDate(data.period_end) - ParseDate(data.period_start) + 1
         ELSE 5

\* C7: every meal / transport line gets the working-day count of the period as its
\* new_quantity, and that count is at least 1 and at most 5 for every period
C7_AllowanceLaw ==
    PlanReturned =>
        \A i \in 1..Len(adjustments.lines) :
            line_rule(adjustments.lines[i].key) = "allowance" =>
                /\ adjustments.lines[i].value.new_quantity = 100 * allowance_days
                /\ adjustments.lines[i].value.new_quantity >= 100
                /\ adjustments.lines[i].value.new_quantity <= 500

\* C8: on the fixture record new_total_charges is strictly between 230 and 250
C8_FixtureScenario ==
    (PlanReturned /\ data = Fixture) =>
        /\ RLess(Cents(23000), adjustments.new_total_charges)
        /\ RLess(adjustments.new_total_charges, Cents(25000))

(***************************************************************************)
(* Properties of the corrected document.                                   *)
(***************************************************************************)
\* C9: detection on a corrected document the validator accepted reports no hours
\* mismatch and no week overlap (has_inconsistency is False)
C9_Idempotence ==
    (corrected /\ pc = "detected") =>
        /\ ~check_hours_mismatch(data)
        /\ ~check_week_overlap(data)
        /\ ~issues.has_inconsistency

\* C10: after the Fixer applied the plan, the Line totals that remain sum to the
\* header TotalCharges within 0.01
C10_LinesEqualTotal ==
    pc = "fixed" =>
        Abs(SumTotals(fixed_tree.lines) - fixed_tree.header.total_charges) <= 1

(***************************************************************************)
(* Properties of the fixer, the parser, the detector and the validator.    *)
(***************************************************************************)
\* C11: a step of the fixer (constructor and fix(), all four steps) leaves the
\* parsed tree and the plan as they were; the changes are in the fixer's own tree
C11_FixerLeavesInputs ==
    [][pc = "calculated" => (tree' = tree /\ adjustments' = adjustments)]_vars

\* C11 witness: fix() returned a tree that differs from the parsed tree
C11_Witness == pc = "fixed" /\ fixed_tree # tree

\* C12: for a document without an Invoice element parse() returns no record and
\* neither the detector, the calculator, the fixer nor the validator has run
C12_NoInvoiceStopsPipeline ==
    (tree # NoTree /\ ~tree.invoice) =>
        /\ pc \in {"upload", "parse_error"}
        /\ data = NoData
        /\ issues = NoIssues
        /\ adjustments = NoAdjustments
        /\ fixed_tree = NoTree
        /\ validation_result = NoValidation

\* C12 witness: parse() failed on a document without an Invoice element
C12_Witness == pc = "parse_error" /\ ~tree.invoice /\ data = NoData

\* C13: for a document with an Invoice element no stage of the pipeline raises
C13_NoException ==
    (tree # NoTree /\ tree.invoice) => pc # "error"

\* the checks of detect() that fire on a record, each under its own tag
checks_fired(d) ==
    (IF check_hours_mismatch(d) THEN {"hours_mismatch"} ELSE {})
    \cup (IF check_week_overlap(d) THEN {"week_overlap"} ELSE {})
    \cup (IF check_amount_mismatch(d) THEN {"amount_mismatch"} ELSE {})
    \cup (IF check_period_consistency(d) THEN {"period_issue"} ELSE {})

\* C14: 'type' is 'multiple' whenever more than one of the four checks fires, and
\* the tag of the check when exactly one fires
C14_TypeTag ==
    issues # NoIssues =>
        /\ Cardinality(checks_fired(data)) > 1 => issues.type = "multiple"
        /\ Cardinality(checks_fired(data)) = 1 => issues.type \in checks_fired(data)

\* the tree the validator was given
validated_tree == IF pc = "test_validated" THEN tree ELSE fixed_tree

BlockingChecks == {"raf_equals_lines", "lines_equal_total", "tax_correct", "mandatory_fields"}

\* C15: is_valid is the conjunction of the four blocking checks; a failing period
\* check goes to 'warnings' only; 'errors' has one entry per failing blocking check
C15_ValidationResult ==
    validation_result # NoValidation =>
        LET v == validation_result
            failing == { c \in BlockingChecks : ~v[c] }
        IN  /\ v.raf_equals_lines = validate_raf_equals_lines(validated_tree)
            /\ v.lines_equal_total = validate_lines_equal_total(validated_tree)
            /\ v.tax_correct = validate_tax_amounts(validated_tree)
            /\ v.mandatory_fields = validate_mandatory_fields(validated_tree)
            /\ v.period_consistent = validate_period_consistency(validated_tree)
            /\ v.is_valid = (v.raf_equals_lines /\ v.lines_equal_total
                             /\ v.tax_correct /\ v.mandatory_fields)
            /\ Len(v.errors) = Cardinality(failing)
            /\ \A c \in failing : \E i \in 1..Len(v.errors) : v.errors[i] = c
            /\ Len(v.warnings) = (IF v.period_consistent THEN 0 ELSE 1)

\* C15 witness: the period check fails alone and the result is valid
C15_Witness ==
    /\ validation_result # NoValidation
    /\ ~validation_result.period_consistent
    /\ validation_result.is_valid
    /\ validation_result.errors = <<>>
    /\ validation_result.warnings # <<>>

\* the adjustment the calculator computes for the i-th Line of the parsed tree
own_adjustment(i) ==
    calculate_line_adjustment(data, parse_single_line(tree.lines[i]), calculate_ratio(data))

\* C16: after fix(), a Line whose own adjustment has action 'remove' is gone and a
\* Line whose own adjustment has action 'adjust' is still there
C16_OwnAction ==
    pc = "fixed" =>
        \A i \in 1..Len(tree.lines) :
            /\ own_adjustment(i).action = "remove" =>
                    line_fate(tree.lines[i], adjustments) = "removed"
            /\ own_adjustment(i).action = "adjust" =>
                    line_fate(tree.lines[i], adjustments) # "removed"

\* C16, second part: on a single-day target no overtime or RTT line is left
C16_SingleDayLines ==
    (pc = "fixed" /\ adjustments.target_period_start = adjustments.target_period_end) =>
        \A j \in 1..Len(fixed_tree.lines) :
            ~overtime_or_rtt(fixed_tree.lines[j].description)

\* C16: both parts
C16_Excision == C16_OwnAction /\ C16_SingleDayLines

\* C17: after fix(), the text of the header annotation with owner
\* NbHeuresFacturees is target_hours written with 2 decimals
C17_HoursAnnotation ==
    (pc = "fixed" /\ fixed_tree.header.nb_heures # NoAnnotation) =>
        fixed_tree.header.nb_heures = format_2f(Rat(adjustments.target_hours, 1))

\* both timestamps of an interval are there and parse
both_parse(i) == i.start.kind = "date" /\ i.end.kind = "date"

timestamp_missing(i) == ~both_parse(i)

\* a day of the target period
in_target(t, adj) ==
    /\ ParseDate(adj.target_period_start) <= ParseDate(t)
    /\ ParseDate(t) <= ParseDate(adj.target_period_end)

\* C18: after fix(), every interval left whose timestamps parse has its start and
\* its end inside the target period; intervals with a missing or unparseable
\* timestamp are all kept
C18_IntervalsInTarget ==
    pc = "fixed" =>
        \A k \in 1..Len(fixed_tree.timecards) :
            /\ \A j \in 1..Len(fixed_tree.timecards[k].intervals) :
                   LET i == fixed_tree.timecards[k].intervals[j]
                   IN  both_parse(i) =>
                           in_target(i.start, adjustments) /\ in_target(i.end, adjustments)
            /\ SelectSeq(fixed_tree.timecards[k].intervals, timestamp_missing)
                   = SelectSeq(tree.timecards[k].intervals, timestamp_missing)

\* C19: after fix(), the DEB_PER and FIN_PER annotations of the header and the
\* PeriodStartDate and PeriodEndDate of every TimeCard hold the target period
C19_PeriodRewritten ==
    pc = "fixed" =>
        /\ fixed_tree.header.deb_per = adjustments.target_period_start
        /\ fixed_tree.header.fin_per = adjustments.target_period_end
        /\ \A k \in 1..Len(fixed_tree.timecards) :
               /\ fixed_tree.timecards[k].period_start.kind # "none" =>
                      fixed_tree.timecards[k].period_start = adjustments.target_period_start
               /\ fixed_tree.timecards[k].period_end.kind # "none" =>
                      fixed_tree.timecards[k].period_end = adjustments.target_period_end
               /\ fixed_tree.timecards[k].period_start = fixed_tree.header.deb_per
               /\ fixed_tree.timecards[k].period_end = fixed_tree.header.fin_per

\* C19 witness: fix() changed both header annotations and the period of a TimeCard
C19_Witness ==
    /\ pc = "fixed"
    /\ tree.header.deb_per # fixed_tree.header.deb_per
    /\ tree.header.fin_per # fixed_tree.header.fin_per
    /\ \E k \in 1..Len(tree.timecards) :
           /\ tree.timecards[k].period_start # fixed_tree.timecards[k].period_start
           /\ tree.timecards[k].period_end # fixed_tree.timecards[k].period_end

\* the quantities of the parsed lines whose unit code is 'HUR' or 'hur'
RECURSIVE hur_quantities(_)
hur_quantities(lines) ==
    IF lines = <<>> THEN 0
    ELSE (IF Head(lines).unit \in {"HUR", "hur"} THEN Head(lines).quantity ELSE 0)
         + hur_quantities(Tail(lines))

\* C20: invoice_hours is the sum of the quantities of all lines whose unit code is
\* 'HUR' / 'hur', whatever their descriptions
C20_InvoiceHours ==
    (data # NoData /\ tree # NoTree) => data.invoice_hours = hur_quantities(data.lines)

(***************************************************************************)
(* Properties of the correction flow and of the cent reconciliation.       *)
(***************************************************************************)
\* C21: the corrected XML is offered only once the fixer has run on the parsed
\* tree and the validator has returned is_valid = TRUE on the corrected tree
C21_DownloadGating ==
    pc = "downloaded" =>
        /\ adjustments # NoAdjustments
        /\ fixed_tree # NoTree
        /\ fixed_tree = fix(tree, adjustments)
        /\ validation_result # NoValidation
        /\ validation_result = validate(fixed_tree)
        /\ validation_result.is_valid

\* C21 witness: a corrected document was offered
C21_Witness == pc = "downloaded" /\ validation_result.is_valid /\ fixed_tree # tree

\* the trigger as claimed: the exact difference between the RAF estimate and
\* new_total_charges is strictly between 0 and 1 and a line has a positive amount
claimed_trigger(d, adj) ==
    /\ RLess(Cents(0), cent_difference(d, adj))
    /\ RLess(cent_difference(d, adj), Cents(100))
    /\ \E i \in 1..Len(adj.lines) : RLess(Cents(0), adj.lines[i].value.new_amount)

\* C22: the reconciliation changes the plan exactly when the difference d satisfies
\* 0 < d < 1 and some line has a positive new_amount
C22_ReconciliationTrigger ==
    PlanReturned =>
        ((adjustments # plan_before_reconciliation(data))
            <=> claimed_trigger(data, plan_before_reconciliation(data)))

\* the entry of index k holds the smallest positive new_amount of the plan
is_smallest_positive(plan, k) ==
    /\ k \in 1..Len(plan.lines)
    /\ RLess(Cents(0), plan.lines[k].value.new_amount)
    /\ \A j \in 1..Len(plan.lines) :
           RLess(Cents(0), plan.lines[j].value.new_amount)
               => ~RLess(plan.lines[j].value.new_amount, plan.lines[k].value.new_amount)

C24_AmountIsProduct ==
    PlanReturned =>
        \A i \in 1..Len(adjustments.lines) :
            LET adj == adjustments.lines[i].value
            IN  adj.action = "adjust" =>
                    adj.new_amount = Cents(RoundHalfUp(adj.new_quantity * adj.unit_price, 10000))

(***************************************************************************)
(* Properties of the detection result.                                     *)
(***************************************************************************)
TypeTags == {"hours_mismatch", "week_overlap", "amount_mismatch", "period_issue", "multiple"}

\* C25: when detect reports an inconsistency its 'type' is one of the five tags and
\* its 'message' is set, also when the period check is the only one that fires; it
\* reports an inconsistency exactly when one of the four checks fires
C25_TypeAndMessage ==
    issues # NoIssues =>
        /\ issues.has_inconsistency <=> checks_fired(data) # {}
        /\ issues.has_inconsistency =>
               /\ issues.type \in TypeTags
               /\ issues.message # "None"

(***************************************************************************)
(* Properties of the corrected tree.                                       *)
(***************************************************************************)
\* the entry of the plan the fixer takes for the i-th Line of the parsed tree
applied_entry(i) == match_adjustment(adjustments.lines, tree.lines[i].description, 1)

\* C26: the adjustment the fixer applies to a Line is the one the calculator
\* computed for that Line, also when one description is contained in another: it
\* is the entry kept under the Line's description, and it holds the action, the
\* quantities and the unit price computed from that Line
C26_OwnAdjustment ==
    pc = "fixed" =>
        \A i \in 1..Len(tree.lines) :
            LET k == applied_entry(i)
                own == own_adjustment(i)
            IN  /\ k # 0
                /\ adjustments.lines[k].key = tree.lines[i].description
                /\ [adjustments.lines[k].value EXCEPT !.new_amount = own.new_amount] = own

\* C27: in the corrected tree the values of the hours-type TimeIntervals that are
\* left add up to target_hours, also when the fixer removed intervals outside
\* the target period
C27_RemainingHours ==
    pc = "fixed" => parse(fixed_tree).raf_hours = adjustments.target_hours

(***************************************************************************)
(* Sign of the planned amounts.                                            *)
(***************************************************************************)
\* a record with quantities and unit prices that are not negative and a target
\* period, two dates, that does not end before it starts
well_formed_record(d) ==
    /\ \A i \in 1..Len(d.lines) : d.lines[i].quantity >= 0 /\ d.lines[i].unit_price >= 0
    /\ ~ParseRaises(d.period_start)
    /\ ~ParseRaises(d.period_end)
    /\ ParseDate(d.period_start) <= ParseDate(d.period_end)

\* C28: for such a record every adjustment has new_amount >= 0 and
\* new_total_charges >= 0, also after the reconciliation took the difference off
\* the smallest positive line
C28_NonNegativeAmounts ==
    (PlanReturned /\ well_formed_record(data)) =>
        /\ \A i \in 1..Len(adjustments.lines) :
               ~RLess(adjustments.lines[i].value.new_amount, Cents(0))
        /\ ~RLess(adjustments.new_total_charges, Cents(0))

====
